---- MODULE Spec2Model ----
(***************************************************************************)
(* A model of the web scraper: CsvHandler, ProgressHandler, BaseScraper,   *)
(* WebScraper, configureAxiosRetryInstance and main.                       *)
(*                                                                         *)
(* One process run is new WebScraper(url, outputFile) and scrape().  The   *)
(* files it leaves (the CSV output, the .progress file and its .tmp) are   *)
(* the state that survives a run; everything else is lost when the         *)
(* process ends.                                                           *)
(*                                                                         *)
(* Page tasks run on one JavaScript thread: the code after an answered     *)
(* fetch (parse, counter increment, temp write, rename) is synchronous,    *)
(* so no other task acts inside it, but the process can be killed between  *)
(* any two of its steps.                                                   *)
(*                                                                         *)
(* The promise returned by queue.add is dropped by scrapePages.  When a    *)
(* task throws, that promise rejects unhandled: the runtime ends the       *)
(* process with the error in its default mode ("throw"), or only warns     *)
(* when it is started with unhandled rejections tolerated ("warn").  The   *)
(* mode is an input of each run.                                           *)
(*                                                                         *)
(* Rows given to the stringifier travel through the write stream before    *)
(* they are in the file; what is still on the way when the process ends    *)
(* abnormally is lost.  A row of the output is modelled by its kind.       *)
(*                                                                         *)
(* Spec is the program as main runs it.  SpecPaused adds a caller that     *)
(* calls pause() and resume() during one run, SpecIO a file system whose   *)
(* checkpoint writes can fail.  SpecParse follows parsePage callback by    *)
(* callback, on pages parsed one after the other by the same scraper; in   *)
(* the other specifications the parse of a page is one step that writes    *)
(* the page's row or fails.  SpecFetch follows one axios.get attempt by    *)
(* attempt, with the timers of axios-retry; in the other specifications a  *)
(* re-attempt follows the failed attempt in one step.                      *)
(***************************************************************************)
EXTENDS Integers, Sequences, FiniteSets

\* ------------------------------------------------------------- bounds
MaxPages == 3
MaxRuns == 2
Concurrency == 2
MaxText == 2
MaxCells == 4
MaxParsed == 2
MaxAnchors == 2

\* ------------------------------------------------- program constants
\* axiosRetry(instance, { retries: 3, ... })
Retries == 3

Pages == 1..MaxPages

VARIABLES
    progressFile,    \* `${outputFile}.progress` on disk
    tmpFile,         \* `${outputFile}.progress.tmp` on disk
    csvExists,       \* whether outputFile exists on disk
    csvRows,         \* the rows of outputFile on disk, in file order
    pc,              \* where the process is: "none", "discover", "running", "closing", "exited"
    exit,            \* how the last process ended: "none", "finished", "error", "killed"
    rejections,      \* the runtime's unhandled-rejection mode of this process
    lastScrapedPage, \* BaseScraper.lastScrapedPage
    totalPages,      \* BaseScraper.totalPages
    isPaused,        \* BaseScraper.isPaused
    queuePaused,     \* the queue's own paused flag
    header,          \* the stringifier's header option
    records,         \* records the stringifier has taken in this run
    csvBuffer,       \* rows the stringifier has put out that are not on disk yet
    backlog,         \* the queue's waiting tasks, in submission order
    task,            \* per page: the state of its task and its fetch attempt
    saveData,        \* the data argument of the safeWriteFileSync call under way
    lastError,       \* the error the process logged last: "none", "retryable", "terminal", "parse", "save"
    runs,            \* history: number of processes started
    submitted,       \* history: the pages handed to queue.add by this run, in order
    loaded,          \* history: what loadProgress found at the start of this run
    completed,       \* history: pages whose fetch, parse and sink writes have ended well
    prevFailed,      \* history: the pages whose task failed in the last run that ended
    pauseHist        \* history: the backlog at the last pause() of this run that
                     \* took effect, whether resume() followed it, and what the
                     \* last call of pause() or resume() did

\* parsePage, one parser callback at a time
VARIABLES
    parsing,         \* "idle", "parsing", "ended" (resolved), "failed" (rejected)
    stack,           \* the parser's open elements, the innermost last
    pending,         \* the callbacks the parser is about to make, in order
    currentRow,      \* BaseScraper.currentRow
    currentCell,     \* BaseScraper.currentCell
    wrote,           \* the records the last callback handed to csvHandler.writeRow
    inRow,           \* history: a row start tag was met and its end tag not yet
    cellsInRow,      \* history: cell end tags met since the last row start tag
    anchored,        \* history: a view or download anchor was met since the last row start tag
    parsed           \* history: number of pages whose parse has begun

\* one axios.get under axios-retry, one attempt at a time
VARIABLES
    request          \* the state of the request, its retry count and its timer

vars == <<progressFile, tmpFile, csvExists, csvRows, pc, exit, rejections,
          lastScrapedPage, totalPages, isPaused, queuePaused, header, records, csvBuffer,
          backlog, task, saveData, lastError, runs, submitted, loaded, completed,
          prevFailed, pauseHist, parsing, stack, pending, currentRow, currentCell,
          wrote, inRow, cellsInRow, anchored, parsed, request>>

\* What BaseScraper.scrape and the queue work on, and what parsePage works on.
scraper == <<progressFile, tmpFile, csvExists, csvRows, pc, exit, rejections,
             lastScrapedPage, totalPages, isPaused, queuePaused, header, records, csvBuffer,
             backlog, task, saveData, lastError, runs, submitted, loaded,
             completed, prevFailed, pauseHist>>
parser == <<parsing, stack, pending, currentRow, currentCell, wrote, inRow,
            cellsInRow, anchored, parsed>>
fetcher == <<request>>

disk == <<progressFile, tmpFile, csvExists, csvRows>>

\* ---------------------------------------------------------- file contents
Absent == [kind |-> "absent"]
Partial == [kind |-> "partial"]
Json(page) == [kind |-> "json", lastScrapedPage |-> page]

\* A row of the output, by its kind.
HeaderRow == "header"
DataRow == "data"

\* ------------------------------------------------------------ pure helpers
Min(a, b) == IF a < b THEN a ELSE b
Max(a, b) == IF a > b THEN a ELSE b

\* Array.from({ length: totalPages }, (_, i) => `${url}?page=${i + 1}`):
\* the URL base?page=N is written N.
PageUrls(P) == [i \in 1..P |-> i]

\* Array.prototype.slice(start), start counted from 0.
Slice(s, start) ==
    LET from == IF start < 0 THEN Max(Len(s) + start, 0) ELSE Min(start, Len(s))
    IN  SubSeq(s, from + 1, Len(s))

Range(s) == {s[i] : i \in 1..Len(s)}

\* A loadProgress that does not read the file.
LoadProgressFresh(file) == 1

\* ProgressHandler.loadProgress: the stored page, or 1 when there is no file.
LoadProgress(file) == IF file.kind = "json" THEN file.lastScrapedPage ELSE 1

NoTask == [st |-> "none", attempt |-> 0]

NoPause == [backlog |-> <<>>, resumed |-> FALSE, last |-> "none"]

\* No error yet, and a request that was not made yet.
NoError == [status |-> 0, code |-> "none"]
NoRequest == [st |-> "none", retryCount |-> 0, delay |-> 0, waited |-> 0, error |-> NoError]

Running(t) == {k \in Pages : t[k].st \in {"fetching", "parsed", "writing", "written"}}
\* A task that ended; the retry state of its request is gone with the request.
Ended(how) == [st |-> how, attempt |-> 0]

\* The synchronous stretch of a task, from its parse to the rename.
InSync(t) == \E k \in Pages : t[k].st \in {"parsed", "writing", "written"}

\* ------------------------------------------------------ the page parser
\* config.js: the schema of a record, the two reserved columns and the
\* prefixes of the links that fill them.
CsvHeaders == <<"header1", "viewUrl", "downloadUrl">>
ViewUrlHeader == "viewUrl"
DownloadUrlHeader == "downloadUrl"
ViewUrlPath == "/view/"
DownloadUrlPath == "/download/"
BaseUrl == "https://example.com"
Columns == Range(CsvHeaders) \cup {ViewUrlHeader, DownloadUrlHeader}

\* A text is the sequence of its characters; an href is written as its first
\* path segment and what follows it, no href as the empty sequence.
Chunks == {<<"a">>, <<" ">>, <<" ", "a", " ">>, <<"&">>}
Hrefs == {<<>>, <<"/view/", "1">>, <<"/download/", "1">>, <<"/other/", "1">>}

\* href.startsWith(path)
StartsWith(href, path) == Len(href) > 0 /\ href[1] = path

\* `${config.baseUrl}${attributes.href}`
Url(href) == <<BaseUrl>> \o href

\* text.trim()
RECURSIVE TrimStart(_)
TrimStart(text) ==
    IF text # <<>> /\ Head(text) = " " THEN TrimStart(Tail(text)) ELSE text
RECURSIVE TrimEnd(_)
TrimEnd(text) ==
    IF text # <<>> /\ text[Len(text)] = " "
    THEN TrimEnd(SubSeq(text, 1, Len(text) - 1))
    ELSE text
Trim(text) == TrimEnd(TrimStart(text))

\* sanitizeHtml(text) on text without markup: the ampersand is escaped.
SanitizeHtml(text) == [i \in 1..Len(text) |-> IF text[i] = "&" THEN "&amp;" ELSE text[i]]

\* this.currentRow: undefined, or an object with its keys and their values.
\* The history field `from` remembers where each value was put into the
\* object: "new" by the callback under way, "row" in the row being read,
\* "otherRow" in an earlier row of the page, "pageRow" in a row of an earlier
\* page, "outside" outside any row, of this page or of an earlier one.
NoOrigin == [c \in Columns |-> "none"]
UndefinedRow ==
    [def |-> FALSE, keys |-> {}, vals |-> [c \in Columns |-> <<>>], from |-> NoOrigin]
EmptyRow ==
    [def |-> TRUE, keys |-> {}, vals |-> [c \in Columns |-> <<>>], from |-> NoOrigin]
SetKey(row, name, value) ==
    [row EXCEPT !.keys = @ \cup {name}, !.vals[name] = value, !.from[name] = "new"]

\* this.currentCell: undefined, or a string.
UndefinedCell == [def |-> FALSE, text |-> <<>>]
Cell(text) == [def |-> TRUE, text |-> text]

\* The callbacks of the parser.
OpenTag(name, striped, href) ==
    [type |-> "open", name |-> name, striped |-> striped, href |-> href, text |-> <<>>]
Text(text) ==
    [type |-> "text", name |-> "", striped |-> FALSE, href |-> <<>>, text |-> text]
CloseTag(name) ==
    [type |-> "close", name |-> name, striped |-> FALSE, href |-> <<>>, text |-> <<>>]
End == [type |-> "end", name |-> "", striped |-> FALSE, href |-> <<>>, text |-> <<>>]

\* What a callback works on: the two fields, the records it wrote and
\* whether it threw.
Fields(row, cell) == [row |-> row, cell |-> cell, wrote |-> <<>>, error |-> FALSE]

\* parserConfig.onopentag; an assignment to a key of undefined throws.
OnOpenTag(p, e) ==
    LET row == IF e.name = "tr" /\ ~e.striped THEN EmptyRow ELSE p.row
        cell == IF e.name = "td" THEN Cell(<<>>) ELSE p.cell
        key == IF e.name = "a" /\ e.href # <<>>
               THEN IF StartsWith(e.href, ViewUrlPath) THEN ViewUrlHeader
                    ELSE IF StartsWith(e.href, DownloadUrlPath) THEN DownloadUrlHeader
                    ELSE ""
               ELSE ""
    IN  IF key = "" THEN [p EXCEPT !.row = row, !.cell = cell]
        ELSE IF ~row.def THEN [p EXCEPT !.row = row, !.cell = cell, !.error = TRUE]
        ELSE [p EXCEPT !.row = SetKey(row, key, Url(e.href)), !.cell = cell]

\* parserConfig.ontext
OnText(p, e) ==
    IF p.cell.def
    THEN [p EXCEPT !.cell = Cell(p.cell.text \o SanitizeHtml(Trim(e.text)))]
    ELSE p

\* parserConfig.onclosetag; `cellName in undefined` and Object.keys(undefined)
\* throw.
OnCloseTag(p, e) ==
    IF e.name = "td"
    THEN IF ~p.row.def THEN [p EXCEPT !.error = TRUE]
         ELSE LET free == {i \in 1..Len(CsvHeaders) : CsvHeaders[i] \notin p.row.keys}
                  first == CHOOSE i \in free : \A j \in free : i <= j
              IN  [p EXCEPT !.row = IF free = {} THEN p.row
                                    ELSE SetKey(p.row, CsvHeaders[first], p.cell.text),
                            !.cell = UndefinedCell]
    ELSE IF e.name = "tr"
    THEN IF ~p.row.def THEN [p EXCEPT !.error = TRUE]
         ELSE IF p.row.keys # {}
         THEN [p EXCEPT !.wrote = <<p.row>>, !.row = EmptyRow]
         ELSE p
    ELSE p

Callback(p, e) ==
    CASE e.type = "open" -> OnOpenTag(p, e)
      [] e.type = "text" -> OnText(p, e)
      [] e.type = "close" -> OnCloseTag(p, e)
      [] OTHER -> p

\* The open elements the parser closes, the innermost first, when it closes
\* those above position n of its stack.
ClosesDownTo(s, n) == [i \in 1..(Len(s) - n) |-> CloseTag(s[Len(s) + 1 - i])]

\* An opening tag closes the elements on top of the stack that it cannot
\* lie in: the position the stack is cut back to.
RECURSIVE ImpliedCut(_, _)
ImpliedCut(s, closed) ==
    IF s # <<>> /\ s[Len(s)] \in closed
    THEN ImpliedCut(SubSeq(s, 1, Len(s) - 1), closed)
    ELSE Len(s)

Init ==
    /\ progressFile = Absent
    /\ tmpFile = Absent
    /\ csvExists = FALSE
    /\ csvRows = <<>>
    /\ pc = "none"
    /\ exit = "none"
    /\ rejections = "throw"
    /\ lastScrapedPage = 1
    /\ totalPages = 1
    /\ isPaused = FALSE
    /\ queuePaused = FALSE
    /\ header = FALSE
    /\ records = 0
    /\ csvBuffer = <<>>
    /\ backlog = <<>>
    /\ task = [k \in Pages |-> NoTask]
    /\ saveData = Absent
    /\ lastError = "none"
    /\ runs = 0
    /\ submitted = <<>>
    /\ loaded = [fromFile |-> FALSE, page |-> 1]
    /\ completed = {}
    /\ prevFailed = {}
    /\ pauseHist = NoPause
    /\ parsing = "idle"
    /\ stack = <<>>
    /\ pending = <<>>
    /\ currentRow = UndefinedRow
    /\ currentCell = UndefinedCell
    /\ wrote = <<>>
    /\ inRow = FALSE
    /\ cellsInRow = 0
    /\ anchored = FALSE
    /\ parsed = 0
    /\ request = NoRequest

\* ------------------------------------------------------------- the fetch
\* How one attempt of axios.get ends: with an HTTP status, or with no
\* response and an error code (status 0 stands for no response).
Statuses == {200, 204, 404, 429, 500, 501, 502, 503, 504}
NetworkCodes == {"ECONNABORTED", "ENOTFOUND"}
Outcomes == [status : Statuses, code : {"none"}] \cup [status : {0}, code : NetworkCodes]

\* axios.get is called without a validateStatus option: a status from 200 to
\* 299 resolves, every other outcome is thrown as an error.
ValidateStatus(status) == status >= 200 /\ status < 300
Answered(outcome) == outcome.status # 0 /\ ValidateStatus(outcome.status)

\* axios-retry's own condition when none is given: a network error other
\* than an abort, or any status from 500 to 599.
RetryConditionDefault(error) ==
    \/ error.status = 0 /\ error.code # "ECONNABORTED"
    \/ error.status >= 500 /\ error.status <= 599

\* retryCondition of configureAxiosRetryInstance.
RetryCondition(error) ==
    \/ error.status = 429
    \/ error.code = "ECONNABORTED"
    \/ error.status \in {500, 502, 503, 504}

\* retryDelay of configureAxiosRetryInstance, in milliseconds, without the
\* distinction of the status.
RetryDelayFlat(retryCount, error) == retryCount * 1000

\* retryDelay of configureAxiosRetryInstance, in milliseconds.
RetryDelay(retryCount, error) ==
    IF error.status = 429 THEN retryCount * 2000 ELSE retryCount * 1000

\* ------------------------------------------------------------- the queue
\* new PQueue({ concurrency: config.concurrency }) without the option runs
\* every task at once.
SlotsUnbounded(t) == MaxPages + 1

\* new PQueue({ concurrency: config.concurrency }): the free slots of the queue.
Slots(t) == Concurrency - Cardinality(Running(t))

\* A queue whose pause() has no effect.
DispatchIgnoringPause(paused, t, b) ==
    LET n == Max(0, Min(Len(b), Concurrency - Cardinality(Running(t))))
        started == Range(SubSeq(b, 1, n))
    IN  [task |-> [k \in Pages |->
                     IF k \in started THEN [st |-> "fetching", attempt |-> 1] ELSE t[k]],
         backlog |-> SubSeq(b, n + 1, Len(b))]

\* The queue starts waiting tasks, oldest first, while a slot is free and it
\* is not paused.
Dispatch(paused, t, b) ==
    LET n == IF paused THEN 0 ELSE Max(0, Min(Len(b), Slots(t)))
        started == Range(SubSeq(b, 1, n))
    IN  [task |-> [k \in Pages |->
                     IF k \in started THEN [st |-> "fetching", attempt |-> 1] ELSE t[k]],
         backlog |-> SubSeq(b, n + 1, Len(b))]

\* queue.onEmpty(): nothing waits.
IdleWhenEmpty(t, b) == b = <<>>

\* queue.onIdle(): nothing waits and nothing runs.
Idle(t, b) == b = <<>> /\ Running(t) = {}

\* ------------------------------------------------------------- the sink
\* csvStringifier.write(row): the header row goes out before the first record
\* when the header option is set.
WriteRow(hdr, n, row) == (IF hdr /\ n = 0 THEN <<HeaderRow>> ELSE <<>>) \o <<row>>

\* csvStringifier.end(): a stringifier that took no record puts out its header.
EndStream(hdr, n) == IF hdr /\ n = 0 THEN <<HeaderRow>> ELSE <<>>

\* ------------------------------------------------------- the checkpoint
\* writeFileSync(filePath, data) on the progress file itself.
UnsafeWriteFileSync(files, data, stage) ==
    CASE stage = "open" -> [files EXCEPT !.progress = Partial]
      [] stage = "write" -> [files EXCEPT !.progress = data]
      [] OTHER -> files

\* safeWriteFileSync, one step at a time: writeFileSync opens (truncates) the
\* temp file, fills it, and renameSync puts it in the place of the file.
SafeWriteFileSync(files, data, stage) ==
    CASE stage = "open" -> [files EXCEPT !.tmp = Partial]
      [] stage = "write" -> [files EXCEPT !.tmp = data]
      [] OTHER -> [progress |-> files.tmp, tmp |-> Absent]

Files == [progress |-> progressFile, tmp |-> tmpFile]

\* saveProgress(++this.lastScrapedPage) would pass the value after the
\* increment.
SavedPageAfter(l) == l + 1

\* saveProgress(this.lastScrapedPage++) passes the value before the increment.
SavedPage(l) == l

\* pageUrls.slice(this.lastScrapedPage): the counter taken as an array index.
ToSubmitFromCounter(P, l) == Slice(PageUrls(P), l)

\* pageUrls.slice(this.lastScrapedPage - 1)
ToSubmit(P, l) == Slice(PageUrls(P), l - 1)

\* The href of an anchor of the seed page is a sequence of pieces: "page=",
\* a digit, or another stretch of characters; an anchor without an href has
\* the empty sequence.  A seed page is the sequence of its anchors.
Digits == {"0", "1", "2", "3"}
SeedHrefs ==
    {<<>>, <<"/list">>, <<"?", "page=">>, <<"?", "page=", "0">>,
     <<"?", "page=", "1">>, <<"?", "page=", "2">>, <<"?", "page=", "3">>,
     <<"?", "page=", "0", "2">>, <<"?", "page=", "&", "page=", "3">>}
SeedPages == UNION {[1..n -> SeedHrefs] : n \in 0..MaxAnchors}

\* attributes.href.includes('page=')
Includes(href, piece) == \E i \in 1..Len(href) : href[i] = piece

\* The digits a string starts with.
RECURSIVE DigitRun(_)
DigitRun(s) ==
    IF s # <<>> /\ Head(s) \in Digits THEN <<Head(s)>> \o DigitRun(Tail(s)) ELSE <<>>

\* attributes.href.match(/page=(\d+)/)?.[1]: the digits after the first
\* "page=" that a digit follows; undefined, here no digits, without one.
MatchPage(href) ==
    LET at == {i \in 1..(Len(href) - 1) : href[i] = "page=" /\ href[i + 1] \in Digits}
    IN  IF at = {} THEN <<>>
        ELSE LET i == CHOOSE i \in at : \A j \in at : i <= j
             IN  DigitRun(SubSeq(href, i + 1, Len(href)))

\* parseInt: the decimal value of the digits, NaN for undefined.
DigitValue(d) == CASE d = "0" -> 0 [] d = "1" -> 1 [] d = "2" -> 2 [] d = "3" -> 3
RECURSIVE Decimal(_)
Decimal(d) ==
    IF d = <<>> THEN 0
    ELSE 10 * Decimal(SubSeq(d, 1, Len(d) - 1)) + DigitValue(d[Len(d)])
NaN == [nan |-> TRUE, n |-> 0]
ParseInt(d) == IF d = <<>> THEN NaN ELSE [nan |-> FALSE, n |-> Decimal(d)]

\* An onopentag that takes the page number of each anchor as it comes.
OnAnchorLast(total, href) ==
    IF href # <<>> /\ Includes(href, "page=")
    THEN LET pageNumber == ParseInt(MatchPage(href))
         IN  IF ~pageNumber.nan /\ pageNumber.n # 0 THEN pageNumber.n ELSE total
    ELSE total

\* onopentag of getTotalPages at an anchor: NaN and 0 are falsy.
OnAnchor(total, href) ==
    IF href # <<>> /\ Includes(href, "page=")
    THEN LET pageNumber == ParseInt(MatchPage(href))
         IN  IF ~pageNumber.nan /\ pageNumber.n # 0 /\ pageNumber.n > total
             THEN pageNumber.n
             ELSE total
    ELSE total

\* getTotalPages: this.totalPages after the anchors of the seed page, in
\* document order.
RECURSIVE GetTotalPages(_, _)
GetTotalPages(start, hrefs) ==
    IF hrefs = <<>> THEN start
    ELSE GetTotalPages(OnAnchor(start, Head(hrefs)), Tail(hrefs))

\* ------------------------------------------------------------- actions
\* What a step of a running process leaves alone unless it says otherwise.
kept == <<rejections, lastScrapedPage, totalPages, isPaused, queuePaused, header, saveData,
          submitted, prevFailed, pauseHist>>

\* main: new WebScraper(url, outputFile) and scrape() up to its first await;
\* CsvHandler's constructor reads existsSync(outputFile) before the write
\* stream creates the file.  JSON.parse of a damaged progress file throws and
\* main ends the process.
Start ==
    /\ pc \in {"none", "exited"}
    /\ runs < MaxRuns
    /\ runs' = runs + 1
    /\ header' = ~csvExists
    /\ csvExists' = TRUE
    /\ isPaused' = FALSE
    /\ queuePaused' = FALSE
    /\ \E m \in {"throw", "warn"} : rejections' = m
    /\ lastScrapedPage' = LoadProgress(progressFile)
    /\ loaded' = [fromFile |-> progressFile.kind = "json",
                  page |-> LoadProgress(progressFile)]
    /\ IF progressFile.kind = "partial"
       THEN pc' = "exited" /\ exit' = "error"
       ELSE pc' = "discover" /\ exit' = "none"
    /\ lastError' = IF progressFile.kind = "partial" THEN "parse" ELSE "none"
    /\ UNCHANGED <<progressFile, tmpFile, csvRows, totalPages, records, csvBuffer,
                   backlog, task, saveData, submitted, completed, prevFailed,
                   pauseHist>>
    /\ UNCHANGED <<parser, fetcher>>

\* What follows the end of a task, or the last queue.add: the queue starts
\* the next waiting tasks; once it is idle, scrapePages returns and scrape
\* calls closeCsvStream.
Continue(t, b, buf, n) ==
    LET d == Dispatch(queuePaused, t, b)
    IN  /\ task' = d.task
        /\ backlog' = d.backlog
        /\ records' = n
        /\ IF Idle(d.task, d.backlog)
           THEN pc' = "closing" /\ csvBuffer' = buf \o EndStream(header, n)
           ELSE pc' = "running" /\ csvBuffer' = buf
        /\ exit' = "none"

\* The end of the process: what it held in memory is gone, what its streams
\* had not written yet is lost.  The failed pages of the run are remembered.
ProcessEnds(how, t) ==
    /\ pc' = "exited"
    /\ exit' = how
    /\ prevFailed' = {k \in Pages : t[k].st = "failed"}
    /\ task' = [k \in Pages |-> NoTask]
    /\ backlog' = <<>>
    /\ csvBuffer' = <<>>
    /\ records' = 0
    /\ lastScrapedPage' = 1
    /\ totalPages' = 1
    /\ isPaused' = FALSE
    /\ queuePaused' = FALSE
    /\ header' = FALSE
    /\ saveData' = Absent
    /\ submitted' = <<>>
    /\ rejections' = "throw"
    /\ loaded' = [fromFile |-> FALSE, page |-> 1]
    /\ pauseHist' = NoPause

\* getTotalPages answers and scrapePages submits one task per page URL.
Discover(hrefs) ==
    /\ pc = "discover"
    /\ LET P == GetTotalPages(totalPages, hrefs)
           urls == ToSubmit(P, lastScrapedPage)
       IN  /\ totalPages' = P
           /\ submitted' = urls
           /\ Continue([k \in Pages |->
                          IF k \in Range(urls) THEN [st |-> "queued", attempt |-> 0]
                          ELSE NoTask],
                       urls, csvBuffer, records)
    /\ UNCHANGED <<disk, rejections, lastScrapedPage, isPaused, queuePaused, header, saveData,
                   lastError, runs, loaded, completed, prevFailed, pauseHist>>
    /\ UNCHANGED <<parser, fetcher>>

DiscoverOk == \E hrefs \in SeedPages : Discover(hrefs)

\* A getTotalPages whose catch logs the error and does not rethrow it:
\* scrapePages goes on with totalPages as it is.
DiscoverFailSwallowed ==
    /\ pc = "discover"
    /\ \E error \in {"retryable", "terminal"} : lastError' = error
    /\ LET urls == ToSubmit(totalPages, lastScrapedPage)
       IN  /\ submitted' = urls
           /\ Continue([k \in Pages |->
                          IF k \in Range(urls) THEN [st |-> "queued", attempt |-> 0]
                          ELSE NoTask],
                       urls, csvBuffer, records)
    /\ UNCHANGED <<disk, rejections, lastScrapedPage, totalPages, isPaused, queuePaused, header,
                   saveData, runs, loaded, completed, prevFailed, pauseHist>>
    /\ UNCHANGED <<parser, fetcher>>

\* getTotalPages throws (the seed fetch failed): scrape rethrows, main's
\* catch calls process.exit(1).
DiscoverFail ==
    /\ pc = "discover"
    /\ \E error \in {"retryable", "terminal"} : lastError' = error
    /\ ProcessEnds("error", task)
    /\ UNCHANGED <<disk, runs, completed>>
    /\ UNCHANGED <<parser, fetcher>>

\* A task throws: queue.add's promise rejects and nobody handles it.  Under
\* the runtime's default mode the process then ends with the error; else the
\* queue moves on to the next task.
TaskFails(k, error, buf, n) ==
    LET t == [task EXCEPT ![k] = Ended("failed")]
    IN  /\ lastError' = error
        /\ IF rejections = "throw"
           THEN ProcessEnds("error", t)
           ELSE Continue(t, backlog, buf, n) /\ UNCHANGED <<kept, loaded>>

\* scrapePage: status 200, parsePage runs to its end and writes the page's
\* row to the sink.
Respond200(k) ==
    /\ pc = "running"
    /\ ~InSync(task)
    /\ task[k].st = "fetching"
    /\ task' = [task EXCEPT ![k].st = "parsed"]
    /\ csvBuffer' = csvBuffer \o WriteRow(header, records, DataRow)
    /\ records' = records + 1
    /\ completed' = completed \cup {k}
    /\ UNCHANGED <<disk, pc, exit, backlog, lastError, runs, loaded, kept>>
    /\ UNCHANGED <<parser, fetcher>>

\* scrapePage: status 200, and a parser callback throws, before or after the
\* page's row went to the sink.
ParseFails(k) ==
    /\ pc = "running"
    /\ ~InSync(task)
    /\ task[k].st = "fetching"
    /\ \E written \in BOOLEAN :
         IF written
         THEN TaskFails(k, "parse", csvBuffer \o WriteRow(header, records, DataRow),
                        records + 1)
         ELSE TaskFails(k, "parse", csvBuffer, records)
    /\ UNCHANGED <<disk, runs, completed>>
    /\ UNCHANGED <<parser, fetcher>>

\* scrapePage: a 2xx status other than 200 is logged and the task ends.
RespondOther(k) ==
    /\ pc = "running"
    /\ ~InSync(task)
    /\ task[k].st = "fetching"
    /\ \E response \in Outcomes : Answered(response) /\ response.status # 200
    /\ Continue([task EXCEPT ![k] = Ended("skipped")], backlog, csvBuffer, records)
    /\ UNCHANGED <<disk, lastError, runs, loaded, completed, kept>>
    /\ UNCHANGED <<parser, fetcher>>

\* An attempt of axios.get throws.  axios-retry tries again when the error
\* meets retryCondition and fewer than `retries` retries were made; else the
\* error surfaces in scrapePage, which logs and rethrows it.
FetchFails(k, error) ==
    /\ pc = "running"
    /\ ~InSync(task)
    /\ task[k].st = "fetching"
    /\ ~Answered(error)
    /\ IF RetryCondition(error) /\ task[k].attempt - 1 < Retries
       THEN /\ task' = [task EXCEPT ![k].attempt = @ + 1]
            /\ UNCHANGED <<pc, exit, backlog, records, csvBuffer, kept, loaded,
                           lastError>>
       ELSE TaskFails(k, IF RetryCondition(error) THEN "retryable" ELSE "terminal",
                      csvBuffer, records)
    /\ UNCHANGED <<disk, runs, completed>>
    /\ UNCHANGED <<parser, fetcher>>

\* An attempt fails with an error that meets retryCondition.
RespondRetryable(k) ==
    \E error \in Outcomes : RetryCondition(error) /\ FetchFails(k, error)

\* An attempt fails with an error that does not meet retryCondition.
RespondTerminal(k) ==
    \E error \in Outcomes : ~RetryCondition(error) /\ FetchFails(k, error)

\* saveProgress(this.lastScrapedPage++): the counter goes up and
\* writeFileSync opens the temp file.
BeginSave(k) ==
    /\ pc = "running"
    /\ task[k].st = "parsed"
    /\ LET data == Json(SavedPage(lastScrapedPage))
           f == SafeWriteFileSync(Files, data, "open")
       IN  /\ saveData' = data
           /\ progressFile' = f.progress
           /\ tmpFile' = f.tmp
    /\ lastScrapedPage' = lastScrapedPage + 1
    /\ task' = [task EXCEPT ![k].st = "writing"]
    /\ UNCHANGED <<csvExists, csvRows, pc, exit, rejections, totalPages, isPaused, queuePaused,
                   header, records, csvBuffer, backlog, lastError, runs, submitted,
                   loaded, completed, prevFailed, pauseHist>>
    /\ UNCHANGED <<parser, fetcher>>

\* writeFileSync has written the data.
FinishWrite(k) ==
    /\ pc = "running"
    /\ task[k].st = "writing"
    /\ LET f == SafeWriteFileSync(Files, saveData, "write")
       IN  progressFile' = f.progress /\ tmpFile' = f.tmp
    /\ task' = [task EXCEPT ![k].st = "written"]
    /\ UNCHANGED <<csvExists, csvRows, pc, exit, records, csvBuffer, backlog,
                   lastError, runs, loaded, completed, kept>>
    /\ UNCHANGED <<parser, fetcher>>

\* renameSync, and the task ends.
Rename(k) ==
    /\ pc = "running"
    /\ task[k].st = "written"
    /\ LET f == SafeWriteFileSync(Files, saveData, "rename")
       IN  progressFile' = f.progress /\ tmpFile' = f.tmp
    /\ saveData' = Absent
    /\ Continue([task EXCEPT ![k] = Ended("done")], backlog, csvBuffer, records)
    /\ UNCHANGED <<csvExists, csvRows, rejections, lastScrapedPage, totalPages,
                   isPaused, queuePaused, header, lastError, runs, submitted, loaded, completed,
                   prevFailed, pauseHist>>
    /\ UNCHANGED <<parser, fetcher>>

\* The write stream puts what it holds into the file.
Flush ==
    /\ pc \in {"discover", "running", "closing"}
    /\ csvBuffer # <<>>
    /\ csvRows' = csvRows \o csvBuffer
    /\ csvBuffer' = <<>>
    /\ UNCHANGED <<progressFile, tmpFile, csvExists, pc, exit, records, backlog,
                   task, lastError, runs, loaded, completed, kept>>
    /\ UNCHANGED <<parser, fetcher>>

\* closeCsvStream resolves, scrape returns and the process ends once its
\* streams are written.
Finish ==
    /\ pc = "closing"
    /\ csvBuffer = <<>>
    /\ ProcessEnds("finished", task)
    /\ UNCHANGED <<disk, lastError, runs, completed>>
    /\ UNCHANGED <<parser, fetcher>>

\* The process is killed, between any two steps.
Kill ==
    /\ pc \in {"discover", "running", "closing"}
    /\ ProcessEnds("killed", task)
    /\ UNCHANGED <<disk, lastError, runs, completed>>
    /\ UNCHANGED <<parser, fetcher>>

\* The steps of a started process.
Run ==
    \/ DiscoverOk
    \/ DiscoverFail
    \/ \E k \in Pages : Respond200(k)
    \/ \E k \in Pages : ParseFails(k)
    \/ \E k \in Pages : RespondOther(k)
    \/ \E k \in Pages : RespondRetryable(k)
    \/ \E k \in Pages : RespondTerminal(k)
    \/ \E k \in Pages : BeginSave(k)
    \/ \E k \in Pages : FinishWrite(k)
    \/ \E k \in Pages : Rename(k)
    \/ Flush
    \/ Finish
    \/ Kill

Next ==
    \/ Start
    \/ Run

Spec == Init /\ [][Next]_vars

\* --------------------------------------------- a caller that pauses a run
\* What pause() and resume() leave alone.
untouched == <<disk, pc, exit, rejections, lastScrapedPage, totalPages, header,
               records, csvBuffer, saveData, lastError, runs, submitted, loaded,
               completed, prevFailed>>

\* A pause() that sets the flag and does not call queue.pause().
PauseFlagOnly ==
    /\ pc \in {"discover", "running", "closing"}
    /\ IF ~isPaused
       THEN /\ isPaused' = TRUE
            /\ pauseHist' = [backlog |-> backlog, resumed |-> FALSE, last |-> "paused"]
       ELSE /\ pauseHist' = [pauseHist EXCEPT !.last = "pause ignored"]
            /\ UNCHANGED isPaused
    /\ UNCHANGED <<untouched, queuePaused, task, backlog>>
    /\ UNCHANGED <<parser, fetcher>>

\* BaseScraper.pause(): on a scraper that is not paused, queue.pause() stops
\* the queue from starting tasks and the flag is set; on a paused scraper
\* nothing is done.
Pause ==
    /\ pc \in {"discover", "running", "closing"}
    /\ IF ~isPaused
       THEN /\ queuePaused' = TRUE
            /\ isPaused' = TRUE
            /\ pauseHist' = [backlog |-> backlog, resumed |-> FALSE, last |-> "paused"]
       ELSE /\ pauseHist' = [pauseHist EXCEPT !.last = "pause ignored"]
            /\ UNCHANGED <<isPaused, queuePaused>>
    /\ UNCHANGED <<untouched, task, backlog>>
    /\ UNCHANGED <<parser, fetcher>>

\* A resume() that clears the flag and does not call queue.start().
ResumeFlagOnly ==
    /\ pc \in {"discover", "running", "closing"}
    /\ IF isPaused
       THEN /\ isPaused' = FALSE
            /\ pauseHist' = [pauseHist EXCEPT !.resumed = TRUE, !.last = "resumed"]
       ELSE /\ pauseHist' = [pauseHist EXCEPT !.last = "resume ignored"]
            /\ UNCHANGED isPaused
    /\ UNCHANGED <<untouched, queuePaused, task, backlog>>
    /\ UNCHANGED <<parser, fetcher>>

\* BaseScraper.resume(): on a paused scraper, queue.start() clears the
\* queue's flag and starts waiting tasks at once (it returns at once when the
\* queue is not paused), and the flag is cleared; on a scraper that is not
\* paused nothing is done.
Resume ==
    /\ pc \in {"discover", "running", "closing"}
    /\ IF isPaused
       THEN /\ isPaused' = FALSE
            /\ queuePaused' = FALSE
            /\ pauseHist' = [pauseHist EXCEPT !.resumed = TRUE, !.last = "resumed"]
            /\ LET d == IF queuePaused THEN Dispatch(FALSE, task, backlog)
                        ELSE [task |-> task, backlog |-> backlog]
               IN  task' = d.task /\ backlog' = d.backlog
       ELSE /\ pauseHist' = [pauseHist EXCEPT !.last = "resume ignored"]
            /\ UNCHANGED <<isPaused, queuePaused, task, backlog>>
    /\ UNCHANGED untouched
    /\ UNCHANGED <<parser, fetcher>>

\* The first process, started on a directory without files of an earlier
\* run.
StartOnce == runs = 0 /\ Start

\* One run of the program with a caller that calls pause() and resume()
\* while scrape() is under way.
NextPaused ==
    \/ StartOnce
    \/ Run
    \/ Pause
    \/ Resume

SpecPaused == Init /\ [][NextPaused]_vars

\* The steps the event loop takes by itself: every request under way is
\* answered or fails, and the code that waits for it is run.
Progress ==
    \/ DiscoverOk
    \/ DiscoverFail
    \/ \E k \in Pages : Respond200(k) \/ ParseFails(k) \/ RespondOther(k)
    \/ \E k \in Pages : RespondRetryable(k) \/ RespondTerminal(k)
    \/ \E k \in Pages : BeginSave(k) \/ FinishWrite(k) \/ Rename(k)
    \/ Flush
    \/ Finish

SpecPausedFair == SpecPaused /\ WF_vars(Progress)

\* ------------------------------------- a file system whose writes can fail
\* writeFileSync raises after it opened the temp file, or renameSync raises:
\* saveProgress throws inside the task, after the counter went up.
SaveFails(k) ==
    /\ pc = "running"
    /\ task[k].st \in {"writing", "written"}
    /\ TaskFails(k, "save", csvBuffer, records)
    /\ UNCHANGED <<disk, runs, completed>>
    /\ UNCHANGED <<parser, fetcher>>

\* One run of the program on a file system where the writes of the
\* checkpoint can fail.
NextIO ==
    \/ StartOnce
    \/ Run
    \/ \E k \in Pages : SaveFails(k)

SpecIO == Init /\ [][NextIO]_vars

\* ------------------------------------------- axios.get, attempt by attempt
\* axios.get(pageUrl) of scrapePage: the first attempt is sent.
AxiosGet ==
    /\ request.st \in {"none", "resolved", "rejected"}
    /\ request' = [NoRequest EXCEPT !.st = "sent"]
    /\ UNCHANGED <<scraper, parser>>

\* The attempt is answered with a status that validateStatus accepts.
AttemptAnswered ==
    /\ request.st = "sent"
    /\ \E outcome \in Outcomes : Answered(outcome)
    /\ request' = [request EXCEPT !.st = "resolved"]
    /\ UNCHANGED <<scraper, parser>>

\* The attempt fails.  axios-retry counts one more retry and sets a timer of
\* retryDelay(retryCount, error) when the error meets retryCondition and
\* fewer than `retries` retries were made; else the error is thrown.
AttemptFails(error) ==
    /\ request.st = "sent"
    /\ ~Answered(error)
    /\ IF RetryCondition(error) /\ request.retryCount < Retries
       THEN request' = [request EXCEPT !.st = "waiting",
                                       !.retryCount = @ + 1,
                                       !.delay = RetryDelay(request.retryCount + 1, error),
                                       !.error = error]
       ELSE request' = [request EXCEPT !.st = "rejected", !.delay = 0, !.error = error]
    /\ UNCHANGED <<scraper, parser>>

\* The timer fires after its delay and the request is sent again.
TimerFires ==
    /\ request.st = "waiting"
    /\ request' = [request EXCEPT !.st = "sent", !.waited = @ + request.delay]
    /\ UNCHANGED <<scraper, parser>>

NextFetch ==
    \/ AxiosGet
    \/ AttemptAnswered
    \/ \E error \in Outcomes : AttemptFails(error)
    \/ TimerFires

SpecFetch == Init /\ [][NextFetch]_vars

\* ------------------------------------------------- parsePage, step by step
\* Pages are parsed one after the other by the same scraper; the documents
\* are tables whose anchors hold text only, with at most MaxCells cells to a
\* row and at most MaxText characters to a cell.
Top(s) == IF s = <<>> THEN "" ELSE s[Len(s)]

\* The record as the next callback finds it: a row start tag makes the values
\* of the row before it values of an earlier row, and the values the
\* callback put are values of the row being read, or of no row.
Placed(row, e, in) ==
    LET moved == [c \in Columns |->
                    IF e.type = "open" /\ e.name = "tr" /\ row.from[c] = "row"
                    THEN "otherRow" ELSE row.from[c]]
        within == IF e.name = "tr" THEN e.type = "open" ELSE in
    IN  [row EXCEPT !.from = [c \in Columns |->
                                IF moved[c] = "new"
                                THEN IF within THEN "row" ELSE "outside"
                                ELSE moved[c]]]

\* The record as the next page finds it: what a row of one page left is,
\* for the next, a value of a row of an earlier page.
Carried(row) ==
    [row EXCEPT !.from = [c \in Columns |->
                            IF row.from[c] \in {"row", "otherRow"} THEN "pageRow"
                            ELSE row.from[c]]]

\* The tag or text the parser reads next makes it call these callbacks.
Feed(s, calls) ==
    /\ parsing = "parsing"
    /\ pending = <<>>
    /\ stack' = s
    /\ pending' = calls
    /\ UNCHANGED <<scraper, fetcher, parsing, currentRow, currentCell, wrote, inRow,
                   cellsInRow, anchored, parsed>>

\* A parsePage that gives way in the middle of a page: the next page's parse
\* begins while this one is under way.
StartParseInterleaved ==
    /\ parsing \in {"idle", "parsing", "ended", "failed"}
    /\ parsed < MaxParsed
    /\ parsed' = parsed + 1
    /\ parsing' = "parsing"
    /\ stack' = <<>>
    /\ pending' = <<>>
    /\ wrote' = <<>>
    /\ inRow' = FALSE
    /\ cellsInRow' = 0
    /\ anchored' = FALSE
    /\ currentRow' = Carried(currentRow)
    /\ UNCHANGED <<scraper, fetcher, currentCell>>

\* parsePage(html): new HtmlParser(parserConfig) on the next page.  The
\* tasks in flight get their responses in some order; parser.write and
\* parser.end are called in the executor of the promise, so the parse of a
\* page runs to its end or its failure before another task goes on.
StartParse ==
    /\ parsing \in {"idle", "ended", "failed"}
    /\ parsed < MaxParsed
    /\ parsed' = parsed + 1
    /\ parsing' = "parsing"
    /\ stack' = <<>>
    /\ pending' = <<>>
    /\ wrote' = <<>>
    /\ inRow' = FALSE
    /\ cellsInRow' = 0
    /\ anchored' = FALSE
    /\ currentRow' = Carried(currentRow)
    /\ UNCHANGED <<scraper, fetcher, currentCell>>

\* <tr> or <tr class="table-striped">: an open row or cell on top of the
\* stack is closed first.
ReadTr ==
    /\ Top(stack) # "a"
    /\ \E striped \in BOOLEAN :
         LET n == ImpliedCut(stack, {"tr", "td"})
         IN  Feed(SubSeq(stack, 1, n) \o <<"tr">>,
                  ClosesDownTo(stack, n) \o <<OpenTag("tr", striped, <<>>)>>)

\* <td>: an open cell on top of the stack is closed first.
ReadTd ==
    /\ Top(stack) # "a"
    /\ cellsInRow < MaxCells
    /\ LET n == ImpliedCut(stack, {"td"})
       IN  Feed(SubSeq(stack, 1, n) \o <<"td">>,
                ClosesDownTo(stack, n) \o <<OpenTag("td", FALSE, <<>>)>>)

\* <a> with or without an href.
ReadA ==
    /\ Top(stack) # "a"
    /\ \E href \in Hrefs : Feed(stack \o <<"a">>, <<OpenTag("a", FALSE, href)>>)

\* A piece of text.
ReadText ==
    \E text \in Chunks :
        /\ Len(currentCell.text) + Len(Trim(text)) <= MaxText
        /\ Feed(stack, <<Text(text)>>)

\* An end tag of an open element closes it and the elements inside it; an
\* end tag of no open element is ignored.
ReadEndTag ==
    \E n \in 1..Len(stack) : Feed(SubSeq(stack, 1, n - 1), ClosesDownTo(stack, n - 1))

\* parser.end(): the open elements are closed and onend is called.
ReadEnd == Feed(<<>>, ClosesDownTo(stack, 0) \o <<End>>)

\* The parser makes its next callback.  A callback that throws ends
\* parser.write and rejects the promise of parsePage; onend resolves it.
Handle ==
    /\ parsing = "parsing"
    /\ pending # <<>>
    /\ LET e == Head(pending)
           p == Callback(Fields(currentRow, currentCell), e)
       IN  /\ currentRow' = Placed(p.row, e, inRow)
           /\ currentCell' = p.cell
           /\ wrote' = p.wrote
           /\ parsing' = IF p.error THEN "failed"
                         ELSE IF e.type = "end" THEN "ended" ELSE "parsing"
           /\ pending' = IF p.error THEN <<>> ELSE Tail(pending)
           /\ stack' = IF p.error THEN <<>> ELSE stack
           /\ inRow' = IF e.name = "tr" THEN e.type = "open" ELSE inRow
           /\ cellsInRow' = IF e.type = "open" /\ e.name = "tr" THEN 0
                            ELSE IF e.type = "close" /\ e.name = "td"
                            THEN cellsInRow + 1 ELSE cellsInRow
           /\ anchored' = IF e.type = "open" /\ e.name = "tr" THEN FALSE
                          ELSE IF /\ e.type = "open" /\ e.name = "a" /\ e.href # <<>>
                                  /\ \/ StartsWith(e.href, ViewUrlPath)
                                     \/ StartsWith(e.href, DownloadUrlPath)
                          THEN TRUE ELSE anchored
    /\ UNCHANGED <<scraper, fetcher, parsed>>

NextParse ==
    \/ StartParse
    \/ ReadTr
    \/ ReadTd
    \/ ReadA
    \/ ReadText
    \/ ReadEndTag
    \/ ReadEnd
    \/ Handle

SpecParse == Init /\ [][NextParse]_vars

\* ------------------------------------------------------------- claims
\* The page the progress file holds; 0 stands for no progress file.
PersistedValue == IF progressFile.kind = "json" THEN progressFile.lastScrapedPage ELSE 0

\* The pages of the current run whose task ended well, and those that failed.
Done == {k \in Pages : task[k].st = "done"}
Failed == {k \in Pages : task[k].st = "failed"}

\* The largest N with 1..N all in S.
PrefixLen(S) == Cardinality({n \in Pages : \A m \in 1..n : m \in S})

\* C1: every page index less than or equal to the persisted checkpoint value
\* has had its fetch, extraction and sink writes end successfully.
C1_CheckpointCoversOnlyCompleted ==
    \A k \in Pages : k <= PersistedValue => k \in completed

\* C2: a run that starts with the persisted value F and finds P pages
\* submits exactly the pages F+1..P, each once.
C2_ResumeSubmitsAfterCheckpoint ==
    (pc \in {"running", "closing"} /\ loaded.fromFile) =>
        /\ Range(submitted) = {k \in 1..totalPages : k > loaded.page}
        /\ Len(submitted) = Cardinality(Range(submitted))

\* A resumed run skips page k: the progress file makes scrapePages leave it
\* out, however many pages are found.
Skipped(k) == progressFile.kind = "json"
              /\ k \notin Range(ToSubmit(MaxPages, LoadProgress(progressFile)))

\* C3: when a page task has failed in a run, the checkpoint persisted at the
\* end of that run does not cover the failed page (a resumed run would not
\* skip it), and the next run submits a task for that page.
C3_FailedPageIsRetried ==
    /\ (pc = "exited" /\ exit \in {"finished", "error"}) =>
           \A k \in prevFailed : ~Skipped(k)
    /\ (pc \in {"running", "closing"} /\ runs > 1) =>
           \A k \in prevFailed : k <= totalPages => k \in Range(submitted)

\* C4: in a fresh run whose tasks have all ended, each well or by a failure,
\* the persisted value is the largest N such that pages 1..N all ended well.
C4_PersistedIsContiguousPrefix ==
    (pc = "closing" /\ ~loaded.fromFile /\ Done \cup Failed = Range(submitted)) =>
        PersistedValue = PrefixLen(Done)

\* C5: whatever the point at which the process is killed, the progress file
\* is never partial: each step leaves it as it was or puts the whole new
\* value in its place, and a run that starts loads that value.
C5_CheckpointFileIsOldOrNew ==
    [][/\ progressFile'.kind # "partial"
       /\ progressFile' # progressFile =>
              progressFile' = saveData /\ saveData.kind = "json"
       /\ (pc' = "discover" /\ pc # "discover" /\ progressFile.kind = "json") =>
              lastScrapedPage' = progressFile.lastScrapedPage]_vars

\* C5 witness: a process was killed with the temp file half written, over an
\* earlier checkpoint, and the next run has loaded the progress file.
C5_Witness ==
    /\ runs = 2
    /\ pc = "discover"
    /\ tmpFile.kind = "partial"
    /\ loaded.fromFile
    /\ lastScrapedPage = progressFile.lastScrapedPage

\* C6: the output never holds more than one header row, and once it holds a
\* data row its first row is the header row.
C6_HeaderOnceAndFirst ==
    LET hdrs == {i \in 1..Len(csvRows) : csvRows[i] = HeaderRow}
    IN  /\ hdrs \subseteq {1}
        /\ (\E i \in 1..Len(csvRows) : csvRows[i] = DataRow) => hdrs = {1}

\* C7: a run that finds no progress file submits exactly one task for each
\* page 1..P, in this order.
C7_FreshRunSubmitsAllPages ==
    (pc \in {"running", "closing"} /\ ~loaded.fromFile) =>
        /\ totalPages >= 1
        /\ submitted = [i \in 1..totalPages |-> i]

\* C7 witness: a fresh run has submitted the tasks of MaxPages pages.
C7_Witness ==
    /\ pc = "running"
    /\ ~loaded.fromFile
    /\ totalPages = MaxPages
    /\ Len(submitted) = MaxPages

\* C8: no fetch makes a fifth attempt; a fetch answered with 200 after at
\* most three retryable failures has its page parsed; and when the fourth
\* attempt fails with a retryable failure the task fails and the page is
\* not recorded as complete in the checkpoint.
C8_RetryBudget ==
    [][\A k \in Pages :
          /\ task'[k].attempt <= Retries + 1
          /\ (Respond200(k) /\ task[k].attempt <= Retries + 1) =>
                 task'[k].st = "parsed" /\ k \in completed'
          /\ (RespondRetryable(k) /\ task[k].attempt = Retries + 1) =>
                 /\ task'[k].st = "failed" \/ (pc' = "exited" /\ k \in prevFailed')
                 /\ ~(k <= PersistedValue')]_vars

\* C9: the failure of a page task does not end the run: the process does not
\* exit with an error while a page task of the run has failed.
C9_FailureDoesNotAbortRun ==
    ~(pc = "exited" /\ exit = "error" /\ prevFailed # {})

\* C10: the tasks started and not yet ended are at most the concurrency limit.
C10_ConcurrencyLimit == Cardinality(Running(task)) <= Concurrency

\* C10 witness: the queue is full and a task waits.
C10_Witness ==
    /\ Cardinality(Running(task)) = Concurrency
    /\ backlog # <<>>

\* C11: while the scraper is paused during a run, no task moves from the
\* backlog to running and the backlog count does not decrease; pause() cancels
\* nothing, and every task that was running at pause time can still take each
\* of its steps (the answer to its fetch, the parse with its sink writes, the
\* checkpoint save) to its end.
C11_PauseStopsDispatchOnly ==
    [][/\ (isPaused /\ isPaused' /\ pc' # "exited") =>
              /\ Len(backlog') >= Len(backlog)
              /\ \A k \in Pages : task[k].st = "queued" => task'[k].st = "queued"
       /\ (~isPaused /\ isPaused') => task' = task /\ backlog' = backlog
       /\ (isPaused /\ pc = "running") =>
              \A k \in Pages :
                 /\ (task[k].st = "fetching" /\ ~InSync(task)) =>
                        ENABLED Respond200(k) /\ ENABLED RespondRetryable(k)
                 /\ task[k].st = "parsed" => ENABLED BeginSave(k)
                 /\ task[k].st = "writing" => ENABLED FinishWrite(k)
                 /\ task[k].st = "written" => ENABLED Rename(k)]_vars

\* C11 witness: the queue is paused with a page waiting and a free slot, and
\* a task that was running at pause time has ended with its checkpoint saved.
C11_Witness ==
    /\ isPaused
    /\ pc = "running"
    /\ backlog # <<>>
    /\ Cardinality(Running(task)) < Concurrency
    /\ \E k \in Pages : task[k].st = "done"
    /\ progressFile.kind = "json"

\* A task that the queue has started.
Started(k) == task[k].st \notin {"none", "queued"}

C13_CloseOnlyAfterIdle ==
    [][/\ pc' = "closing" =>
              /\ backlog' = <<>>
              /\ \A k \in Range(submitted') : task'[k].st \in {"done", "failed", "skipped"}
       /\ pc = "closing" =>
              /\ progressFile' = progressFile /\ tmpFile' = tmpFile
              /\ lastScrapedPage' = lastScrapedPage \/ pc' = "exited"
              /\ records' = records \/ pc' = "exited"
              /\ Len(csvRows' \o csvBuffer') <= Len(csvRows \o csvBuffer)]_vars

\* C13 witness: the close of the sink was requested after every page of a
\* run ended, the last of them with its checkpoint saved.
C13_Witness ==
    /\ pc = "closing"
    /\ Len(submitted) = MaxPages
    /\ \A k \in Range(submitted) : task[k].st = "done"
    /\ PersistedValue = MaxPages

\* C14: if page-count discovery fails, the run ends with the error surfaced
\* to the caller, and no page task has been submitted, no page fetched and no
\* checkpoint saved.
C14_DiscoveryFailureIsFatal ==
    [][/\ pc = "discover" =>
              /\ submitted = <<>> /\ backlog = <<>>
              /\ \A k \in Pages : task[k] = NoTask
              /\ saveData = Absent
       /\ (pc = "discover" /\ lastError' # lastError) =>
              /\ pc' = "exited" /\ exit' = "error"
              /\ submitted' = <<>> /\ backlog' = <<>>
              /\ \A k \in Pages : task'[k] = NoTask
              /\ progressFile' = progressFile /\ tmpFile' = tmpFile
              /\ csvRows' = csvRows]_vars

\* C14 witness: the discovery of a resumed run failed; the process ended
\* with the error, no task failed and the checkpoint is the one it loaded.
C14_Witness ==
    /\ pc = "exited" /\ exit = "error"
    /\ lastError \in {"retryable", "terminal"}
    /\ prevFailed = {}
    /\ runs = 2
    /\ PersistedValue = 1

\* C15: if saving the checkpoint fails for some page task (the temp-file
\* write or the rename raises an error), the run stops: no further page task
\* is dispatched from the backlog and scrape() surfaces the error to its
\* caller.
C15_CheckpointErrorIsFatal ==
    [][\A k \in Pages :
          SaveFails(k) =>
              /\ pc' = "exited" /\ exit' = "error"
              /\ \A j \in Pages : task[j].st = "queued" => task'[j].st # "fetching"]_vars

\* The fetch of page k ends an attempt with the given outcome.
Fetched(k, outcome) ==
    IF Answered(outcome)
    THEN IF outcome.status = 200 THEN Respond200(k) \/ ParseFails(k) ELSE RespondOther(k)
    ELSE FetchFails(k, outcome)

\* C16: a page fetch that ends with a non-2xx status that is not retryable
\* (for example 404) is returned to the page task as a response carrying that
\* status, not raised as an error: the task logs it, writes no record, does
\* not advance the checkpoint, and ends without failing.
C16_TerminalStatusIsAResponse ==
    [][\A k \in Pages : \A outcome \in Outcomes :
          (/\ outcome.status \in Statuses \ {429, 500, 502, 503, 504}
           /\ ~(outcome.status >= 200 /\ outcome.status <= 299)
           /\ Fetched(k, outcome)) =>
              /\ task'[k].st = "skipped"
              /\ lastError' = lastError
              /\ records' = records
              /\ lastScrapedPage' = lastScrapedPage
              /\ progressFile' = progressFile]_vars

\* C19: the persisted checkpoint value never decreases: within a run each
\* save writes a value greater than or equal to the previously persisted one,
\* and the first save of a resumed run writes a value greater than or equal
\* to the value loaded at its start.
C19_CheckpointNeverDecreases ==
    [][progressFile' # progressFile =>
          /\ PersistedValue' >= PersistedValue
          /\ loaded.fromFile => PersistedValue' >= loaded.page]_vars

\* C19 witness: a resumed run that loaded page 2 has saved page 3.
C19_Witness ==
    /\ runs = 2
    /\ loaded.fromFile /\ loaded.page = 2
    /\ PersistedValue = 3

\* The failures the retry policy names: status 429, 500, 502, 503 or 504, or
\* a connection abort or timeout.
Listed(error) ==
    error.status \in {429, 500, 502, 503, 504} \/ error.code = "ECONNABORTED"

\* C20: a fetch attempt is followed by another attempt only if it failed with
\* HTTP status 429, 500, 502, 503 or 504 or with a connection abort/timeout;
\* after any other failure the fetch ends at once with that failure and makes
\* no further attempt.
C20_RetryOnlyListedFailures ==
    [][\A k \in Pages :
          /\ (task[k].st = "fetching" /\ task'[k].attempt > task[k].attempt) =>
                 \E error \in Outcomes : Listed(error) /\ FetchFails(k, error)
          /\ \A error \in Outcomes :
                 (FetchFails(k, error) /\ ~Listed(error)) =>
                     /\ task'[k].st = "failed" \/ (pc' = "exited" /\ k \in prevFailed')
                     /\ task'[k].attempt = 0
                     /\ lastError' = "terminal"]_vars

\* C20 witness: a fetch is at its last attempt after three retries, and the
\* fetch of another page has ended at once with a failure that is not retried.
C20_Witness ==
    /\ \E k \in Pages : task[k].st = "fetching" /\ task[k].attempt = Retries + 1
    /\ \E j \in Pages : task[j].st = "failed"
    /\ lastError = "terminal"

\* C17: for every row made of cells c1..cn under schema s1..sm with no
\* prefix-matching anchor, the record yielded at the row end maps si to the
\* text of ci for each i <= min(n, m) (an empty cell text included), and each
\* cell after the m-th is discarded without changing the record.  Cell by
\* cell: the end of the i-th cell of such a row puts the cell's text under si
\* and leaves s1..s(i-1) as they are, the end of a cell after the m-th changes
\* nothing, and the row end hands the record of s1..s(min(n, m)) to the sink.
C17_CellsFillSchemaInOrder ==
    [][(parsing = "parsing" /\ pending # <<>> /\ inRow /\ ~anchored) =>
          LET e == Head(pending)
              m == Len(CsvHeaders)
          IN  /\ (e.type = "close" /\ e.name = "td" /\ cellsInRow < m) =>
                     /\ parsing' = "parsing"
                     /\ currentRow'.def
                     /\ currentRow'.keys = {CsvHeaders[i] : i \in 1..(cellsInRow + 1)}
                     /\ currentRow'.vals[CsvHeaders[cellsInRow + 1]] = currentCell.text
                     /\ \A i \in 1..cellsInRow :
                            currentRow'.vals[CsvHeaders[i]] = currentRow.vals[CsvHeaders[i]]
              /\ (e.type = "close" /\ e.name = "td" /\ cellsInRow >= m) =>
                     parsing' = "parsing" /\ currentRow' = currentRow
              /\ (e.type = "close" /\ e.name = "tr" /\ cellsInRow > 0) =>
                     /\ parsing' = "parsing"
                     /\ Len(wrote') = 1
                     /\ wrote'[1].keys = {CsvHeaders[i] : i \in 1..Min(cellsInRow, m)}
                     /\ wrote'[1].vals = currentRow.vals]_vars

\* C18: whenever the scan of a page meets an anchor start tag whose href
\* starts with the view prefix (or the download prefix), at any position of
\* the tag stream and whether a cell accumulator is open or not, the view (or
\* download) column of the current in-progress record becomes base URL + href
\* and the scan goes on without a failure.
C18_AnchorFillsReservedColumn ==
    [][(parsing = "parsing" /\ pending # <<>>) =>
          LET e == Head(pending)
          IN  \A key \in {ViewUrlHeader, DownloadUrlHeader} :
                 (/\ e.type = "open" /\ e.name = "a" /\ e.href # <<>>
                  /\ e.href[1] = IF key = ViewUrlHeader THEN ViewUrlPath
                                 ELSE DownloadUrlPath) =>
                     /\ parsing' = "parsing"
                     /\ currentRow'.def
                     /\ key \in currentRow'.keys
                     /\ currentRow'.vals[key] = <<BaseUrl>> \o e.href]_vars

\* C21: with several page tasks in flight, the records of a page reach the
\* sink in the page's extraction order and each row is written whole: a
\* record is handed to the sink by the callback of its row's end tag, one
\* record at a time and as the in-progress record stood, and none of its
\* values was put there in a row of another page.
C21_RowsWrittenWholePerPage ==
    [][(parsing = "parsing" /\ pending # <<>> /\ wrote' # <<>>) =>
          LET e == Head(pending)
          IN  /\ e.type = "close" /\ e.name = "tr"
              /\ wrote' = <<currentRow>>
              /\ \A c \in currentRow.keys : currentRow.from[c] # "pageRow"]_vars

\* The second page parsed hands over a record of two values of its own row.
C21_Witness ==
    /\ parsed = 2
    /\ wrote # <<>>
    /\ Cardinality(wrote[1].keys) >= 2
    /\ \A c \in wrote[1].keys : wrote[1].from[c] = "row"

\* C22: page tasks share no extraction state: what the extraction of one
\* page, or of an earlier row, left in the in-progress record is never
\* visible to a later row.  Every record handed to the sink holds only
\* values put there in its own row of its own page, also when the row start
\* tag is marked striped or an anchor lies outside any row.
C22_RecordHoldsOwnRowOnly ==
    [][(parsing = "parsing" /\ pending # <<>> /\ wrote' # <<>>) =>
          \A i \in 1..Len(wrote') :
              \A c \in wrote'[i].keys : wrote'[i].from[c] = "row"]_vars

\* C23: for every sequence of tag events of a page, a row end tag met with a
\* non-empty in-progress record hands exactly that one record to the sink, a
\* row end tag met with an empty in-progress record hands over nothing, and
\* right after any row end tag the scan goes on with an empty in-progress
\* record; hence every record handed over is non-empty.
C23_RowEndYieldsAndResets ==
    [][(/\ parsing = "parsing" /\ pending # <<>>
        /\ Head(pending).type = "close" /\ Head(pending).name = "tr") =>
          /\ currentRow.keys # {} =>
                 /\ Len(wrote') = 1
                 /\ wrote'[1].keys = currentRow.keys
                 /\ wrote'[1].vals = currentRow.vals
          /\ currentRow.keys = {} => wrote' = <<>>
          /\ parsing' = "parsing"
          /\ currentRow'.def
          /\ currentRow'.keys = {}
          /\ \A i \in 1..Len(wrote') : wrote'[i].keys # {}]_vars

\* The values N of the anchors of a seed page whose href has page=N.
PageValues(hrefs) ==
    {Decimal(MatchPage(hrefs[i])) : i \in {j \in 1..Len(hrefs) : MatchPage(hrefs[j]) # <<>>}}
MaxOf(S) == CHOOSE n \in S : \A m \in S : m <= n

\* C24, as stated: for every sequence of anchors on the seed page, page-count
\* discovery returns the maximum N over the anchors whose href has a page=N
\* value, and 1 when no anchor has such a value (an href with "page=" and no
\* digits has none).
C24_CountIsMaxPageValue ==
    [][pc = "discover" =>
          \A hrefs \in SeedPages :
              Discover(hrefs) =>
                  totalPages' = IF PageValues(hrefs) = {} THEN 1
                                ELSE MaxOf(PageValues(hrefs))]_vars

\* C24, amended: for every sequence of anchors on the seed page, page-count
\* discovery returns the larger of 1 and the maximum N over the anchors
\* whose href has a page=N value, and 1 when no anchor has such a value: a
\* seed page whose only values are page=0 gives 1, not 0.
C24_CountIsMaxPageValueAtLeastOne ==
    [][pc = "discover" =>
          \A hrefs \in SeedPages :
              Discover(hrefs) =>
                  totalPages' = IF PageValues(hrefs) = {} THEN 1
                                ELSE Max(1, MaxOf(PageValues(hrefs)))]_vars

\* Discovery found the largest page count and one task per page was handed
\* to the queue.
C24_Witness ==
    /\ pc = "running"
    /\ totalPages = MaxPages
    /\ Len(submitted) = MaxPages

\* C25: the delay before re-attempt number n (n = 1, 2, 3) of a fetch is
\* n * 2000 ms when the failed attempt had status 429 and n * 1000 ms for
\* every other retryable failure.
C25_RetryDelayIsLinear ==
    [][\A error \in Outcomes :
          (AttemptFails(error) /\ request'.st = "waiting") =>
              LET n == request'.retryCount
              IN  /\ n \in 1..Retries
                  /\ request'.delay = IF error.status = 429 THEN n * 2000 ELSE n * 1000]_vars

\* The third re-attempt waits after a status 429; the first waited after
\* another retryable failure and the second after a 429.
C25_Witness ==
    /\ request.st = "waiting"
    /\ request.retryCount = 3
    /\ request.error.status = 429
    /\ request.delay = 6000
    /\ request.waited = 1000 + 4000

\* What a run holds apart from the history of its pause() and resume()
\* calls.
BesidesCalls ==
    <<disk, pc, exit, rejections, lastScrapedPage, totalPages, isPaused, queuePaused,
      header, records, csvBuffer, backlog, task, saveData, lastError>>

\* C26: for every sequence of pause() and resume() calls on a scraper, the
\* isPaused flag is true exactly when its queue does not start tasks, and
\* pause() on a paused scraper and resume() on a scraper that is not paused
\* change nothing.
C26_FlagMatchesQueueAndCallsIdempotent ==
    [][/\ isPaused = queuePaused
       /\ isPaused' = queuePaused'
       /\ (isPaused /\ Pause) => UNCHANGED BesidesCalls
       /\ (~isPaused /\ Resume) => UNCHANGED BesidesCalls]_vars

\* pause(), resume() and resume() again were called on a run under way that
\* still has a task waiting: the second resume() was ignored.
C26_Witness ==
    /\ pc = "running"
    /\ pauseHist.resumed
    /\ pauseHist.last = "resume ignored"
    /\ backlog # <<>>
    /\ ~isPaused /\ ~queuePaused

\* The tasks of the run whose save is under way, and a step in which the
\* task of page k ends with a status other than 200 or with a failure.
Saving == {k \in Pages : task[k].st \in {"writing", "written"}}
EndsWithoutSave(k) ==
    \/ RespondOther(k)
    \/ ParseFails(k)
    \/ \E error \in Outcomes : FetchFails(k, error) /\ task'[k].st # "fetching"

\* C27: in a run that loaded the value L at its start, after k >= 1
\* successful page completions, whatever their page indices and order, the
\* persisted checkpoint value is L + k - 1 and the counter lastScrapedPage is
\* L + k (one more while the save of the next completion is under way); a
\* task that ends with a status other than 200 or with a failure changes
\* neither the persisted value nor, in a process that goes on, the counter.
C27_CheckpointCountsCompletions ==
    [][/\ (pc' \in {"running", "closing"} /\ Cardinality(Done') >= 1) =>
             /\ PersistedValue' = loaded'.page + Cardinality(Done') - 1
             /\ lastScrapedPage' = loaded'.page + Cardinality(Done') + Cardinality(Saving')
       /\ \A k \in Pages :
             EndsWithoutSave(k) =>
                 /\ PersistedValue' = PersistedValue
                 /\ pc' # "exited" => lastScrapedPage' = lastScrapedPage]_vars

\* A second run, which loaded 2, has completed its two pages: 3 is on disk
\* and the counter is 4.
C27_Witness ==
    /\ pc = "closing"
    /\ loaded = [fromFile |-> TRUE, page |-> 2]
    /\ Cardinality(Done) = 2
    /\ PersistedValue = 3
    /\ lastScrapedPage = 4

====
